---- MODULE Spec2Model ----
(***************************************************************************)
(* State-machine model of botanim_bot/bot.py: the vote intake pipeline     *)
(* (vote_process, whole and await by await), the leaderboard               *)
(* (/voteresults), the two paginated catalog browsers (/vote, /allbooks    *)
(* and their inline-button handlers) and the keyboard they share.          *)
(*                                                                         *)
(* Texts and callback tokens are sequences of one-character strings, so    *)
(* that re.findall, int(), str() and slicing are computed, not assumed.    *)
(* books.py and votings.py are not part of the sources at hand; the        *)
(* operators that stand for them follow the written specification.         *)
(***************************************************************************)
EXTENDS Integers, Sequences, FiniteSets, TLC

VARIABLES
    voting,     \* the votings table: [count, active]; voting `count` is active iff active
    catalog,    \* the books table: sequence of categories, each a sequence of books
    store,      \* the vote table: set of ballots [voter, voting, books]
    update,     \* the inbound update being handled (or handled last)
    out,        \* what the last handler did: replies, calls, error, keyboard
    shown,      \* the browser message on screen (page and keyboard), or Blank
    trail,      \* observation: the button presses made on the message on screen
    tasks       \* the vote_process tasks in flight, each at one of its awaits

vars == <<voting, catalog, store, update, out, shown, trail, tasks>>

-----------------------------------------------------------------------------
(* Bounds of the model *)

MaxLen == 7         \* longest message text, in characters
MaxVotings == 2     \* votings ever opened
MaxPages == 11      \* most pages a keyboard is built for

(* config.py *)

VOTE_ELEMENTS_COUNT == 3

ALL_BOOKS_CALLBACK_PATTERN == <<"a", "l", "l", "_", "b", "o", "o", "k", "s", "_">>

VOTE_BOOKS_CALLBACK_PATTERN == <<"v", "o", "t", "e", "_">>

-----------------------------------------------------------------------------
(* Python's None, by the type of what is missing *)

None == "None"          \* of a name: no handler, no reply, no error

NoVoting == 0           \* get_actual_voting() is None; voting ids start at 1

NoBooks == <<>>         \* nothing was passed to save_vote

NoPage == 0 - 1         \* no page on screen

NoLeaders == <<>>       \* get_leaders() is None; a leaderboard is never empty

-----------------------------------------------------------------------------
(* The records of the model *)

\* the votings table: `count` votings were opened, the last one is active or not
Voting(active, count) == [active |-> active, count |-> count]

Book(id, status) == [id |-> id, status |-> status]

Ballot(user, v, books) == [voting |-> v, books |-> books, voter |-> user]

\* the three kinds of update main() routes: text is the message text, the command
\* (its name, as the one word of the text) or the callback payload; message says
\* whether update.message is set
Update(user, text, kind, message) ==
    [user |-> user, text |-> text, kind |-> kind, message |-> message]

Message(user, text) == Update(user, text, "message", TRUE)

Command(user, name, has_message) == Update(user, <<name>>, "command", has_message)

Callback(user, data) == Update(user, data, "callback", TRUE)

NoUpdate == Update(0, <<>>, None, FALSE)

\* the message on screen: a category page with its keyboard; snapshot is the list
\* of categories the handler read when it drew the page
Screen(prefix, page, start, count, prev, mid, label, next, category, snapshot) ==
    [count |-> count, prefix |-> prefix, page |-> page, start |-> start,
     prev |-> prev, mid |-> mid, label |-> label, next |-> next,
     category |-> category, snapshot |-> snapshot]

Blank == Screen(<<>>, NoPage, NoPage, NoPage, <<>>, <<>>, <<>>, <<>>, <<>>, <<>>)

\* op: the handler; reply: the text it sent; calls: what it called, in order;
\* error: the exception it ended with; voting: what get_actual_voting returned;
\* saved: the books it passed to save_vote; replaced: the books of the ballot that
\* save_vote overwrote; pages: the number of categories it read; screen: the page
\* it sent; leaders: the lines of the leaderboard it sent
Did(op, reply, calls, error) ==
    [voting |-> NoVoting, op |-> op, reply |-> reply, calls |-> calls,
     error |-> error, saved |-> NoBooks, replaced |-> NoBooks,
     pages |-> NoPage, screen |-> Blank, leaders |-> NoLeaders]

Idle == Did(None, None, <<>>, None)

\* a button press as `trail` remembers it
Press(from, button) == [from |-> from, button |-> button]

\* a vote_process task: pc is the await it stands before ("check": line 75,
\* "resolve": line 86, "save": line 94) or "none"/"done"; checked: what
\* get_actual_voting returned at line 75; books: what line 86 returned; recorded:
\* the voting its ballot was written for; reply: the text it sent
Task(pc, user, text, checked, books, recorded, reply) ==
    [pc |-> pc, reply |-> reply, user |-> user, books |-> books, text |-> text,
     checked |-> checked, recorded |-> recorded]

NoTask == Task("none", 0, <<>>, NoVoting, NoBooks, NoVoting, None)

TaskIds == {1, 2, 3}

NoTasks == [t \in TaskIds |-> NoTask]

-----------------------------------------------------------------------------
(* Python primitives the handlers use *)

Digits == <<"0", "1", "2", "3", "4", "5", "6", "7", "8", "9">>

IsDigit(c) == \E k \in 1..10 : Digits[k] = c

DigitValue(c) == (CHOOSE k \in 1..10 : Digits[k] = c) - 1

Range(s) == {s[k] : k \in 1..Len(s)}

\* int(s) for a run of decimal digits: leading zeros do not change the value
RECURSIVE IntOfDigits(_, _)
IntOfDigits(s, acc) ==
    IF s = <<>> THEN acc
    ELSE IntOfDigits(Tail(s), 10 * acc + DigitValue(Head(s)))

int(s) == IntOfDigits(s, 0)

\* str(n) for an integer: decimal, no leading zeros, "-" for a negative one
RECURSIVE StrOfNat(_)
StrOfNat(n) ==
    IF n < 10 THEN <<Digits[n + 1]>>
    ELSE StrOfNat(n \div 10) \o <<Digits[(n % 10) + 1]>>

str(n) == IF n < 0 THEN <<"-">> \o StrOfNat(0 - n) ELSE StrOfNat(n)

\* re.findall(r"\d+", text): the maximal runs of digits, left to right
RECURSIVE ScanDigits(_, _, _)
ScanDigits(text, run, found) ==
    IF text = <<>>
    THEN IF run = <<>> THEN found ELSE Append(found, run)
    ELSE IF IsDigit(Head(text))
         THEN ScanDigits(Tail(text), Append(run, Head(text)), found)
         ELSE ScanDigits(Tail(text), <<>>,
                         IF run = <<>> THEN found ELSE Append(found, run))

findall_digits(text) == ScanDigits(text, <<>>, <<>>)

\* s.strip() == "" for a callback payload
IsBlank(s) == \A k \in 1..Len(s) : s[k] = " "

\* s[n:]
SliceFrom(s, n) == IF n >= Len(s) THEN <<>> ELSE SubSeq(s, n + 1, Len(s))

-----------------------------------------------------------------------------
(* The tables behind books.py and votings.py *)

NotStarted == "NotStarted"
Reading == "Reading"
Finished == "Finished"

\* Fiction: two books, Science: one book; book ids are not the numbers voters use
ExampleCatalog ==
    << <<Book(21, NotStarted), Book(22, NotStarted)>>, <<Book(31, NotStarted)>> >>

\* the same club after it started to read the first book
ReadingCatalog ==
    << <<Book(21, Reading), Book(22, NotStarted)>>, <<Book(31, NotStarted)>> >>

\* everything is read or being read: nothing left to vote for
NothingLeftCatalog ==
    << <<Book(21, Finished), Book(22, Finished)>>, <<Book(31, Reading)>> >>

\* one more category with one more book
LargerCatalog ==
    << <<Book(21, NotStarted), Book(22, NotStarted)>>, <<Book(31, NotStarted)>>,
       <<Book(41, NotStarted)>> >>

\* four categories
LargestCatalog ==
    << <<Book(21, NotStarted), Book(22, NotStarted)>>, <<Book(31, NotStarted)>>,
       <<Book(41, NotStarted)>>, <<Book(51, Finished), Book(52, NotStarted)>> >>

SingleCatalog == << <<Book(21, NotStarted)>> >>

EmptyCatalog == << >>

Catalogs ==
    {EmptyCatalog, SingleCatalog, ExampleCatalog, ReadingCatalog, NothingLeftCatalog,
     LargerCatalog, LargestCatalog}

RECURSIVE SelectSeqBy(_, _)
SelectSeqBy(s, keep) ==
    IF s = <<>> THEN <<>>
    ELSE IF Head(s) \in keep THEN <<Head(s)>> \o SelectSeqBy(Tail(s), keep)
         ELSE SelectSeqBy(Tail(s), keep)

RECURSIVE Flatten(_)
Flatten(categories) ==
    IF categories = <<>> THEN <<>>
    ELSE Head(categories) \o Flatten(Tail(categories))

RECURSIVE CategoriesOf(_, _)
CategoriesOf(categories, statuses) ==
    IF categories = <<>> THEN <<>>
    ELSE LET books == SelectSeqBy(Head(categories),
                                  {b \in Range(Head(categories)) : b.status \in statuses})
         IN  (IF books = <<>> THEN <<>> ELSE <<books>>)
             \o CategoriesOf(Tail(categories), statuses)

\* books.get_all_books(): every category that has books, in catalog order
get_all_books == CategoriesOf(catalog, {NotStarted, Reading, Finished})

\* books.get_not_started_books(): the categories of the books nobody has read yet
get_not_started_books == CategoriesOf(catalog, {NotStarted})

\* books.get_books_by_numbers(numbers): each requested number is looked up in the
\* flattened list of not-started books; a number outside 1..total matches nothing
RECURSIVE BooksAt(_, _)
BooksAt(numbers, eligible) ==
    IF numbers = <<>> THEN <<>>
    ELSE LET n == int(Head(numbers))
         IN  (IF n \in 1..Len(eligible) THEN <<eligible[n]>> ELSE <<>>)
             \o BooksAt(Tail(numbers), eligible)

get_books_by_numbers(numbers) == BooksAt(numbers, Flatten(get_not_started_books))

\* books.calculate_category_books_start_index(categories, current_category)
RECURSIVE calculate_category_books_start_index(_, _)
calculate_category_books_start_index(categories, current_category) ==
    IF categories = <<>> \/ Head(categories) = current_category THEN 0
    ELSE Len(Head(categories))
         + calculate_category_books_start_index(Tail(categories), current_category)

\* books.build_category_with_books_string(category, start_index) in the voting
\* browser: one line per book, <<number, book>>, numbered on from start_index
build_category_with_books_string(current_category, start_index) ==
    [j \in 1..Len(current_category) |-> <<start_index + j, current_category[j]>>]

\* votings.get_actual_voting(): the id of the active voting, if any
get_actual_voting == IF voting.active THEN voting.count ELSE NoVoting

BookIds(books) == [k \in 1..Len(books) |-> books[k].id]

\* votings.save_vote(user, books): insert-or-replace on (voter, voting), in one
\* write; the voting is the actual one at the time of the call, and without one
\* there is nothing to record the ballot for
save_vote(user, books) ==
    LET v == get_actual_voting
    IN  IF v = NoVoting THEN store
        ELSE {b \in store : ~(b.voter = user /\ b.voting = v)}
                 \cup {Ballot(user, v, BookIds(books))}

\* the per-book counter of the tally: one increment for every entry of every ballot
Score(ballots, book) ==
    Cardinality({e \in ballots \X (1..VOTE_ELEMENTS_COUNT) :
                    e[2] \in DOMAIN e[1].books /\ e[1].books[e[2]] = book})

\* the ranking: higher score first, lower catalog id first among equal scores
RECURSIVE Ranked(_, _)
Ranked(ballots, books) ==
    IF books = {} THEN <<>>
    ELSE LET first == CHOOSE x \in books : \A y \in books \ {x} :
                          \/ Score(ballots, x) > Score(ballots, y)
                          \/ Score(ballots, x) = Score(ballots, y) /\ x < y
         IN  <<first>> \o Ranked(ballots, books \ {first})

\* votings.get_leaders(): the books of the ballots of the actual voting with their
\* scores, <<book, score>>, ranked; None without a voting or without ballots
get_leaders ==
    LET ballots == {b \in store : b.voting = get_actual_voting}
        books == UNION {Range(b.books) : b \in ballots}
        ranked == Ranked(ballots, books)
    IN  IF get_actual_voting = NoVoting \/ ballots = {} THEN NoLeaders
        ELSE [k \in 1..Len(ranked) |-> <<ranked[k], Score(ballots, ranked[k])>>]

-----------------------------------------------------------------------------
(* vote_process: a free-text message is a ballot                           *)

\* a check for "no voting was ever opened" in place of "no voting is active"
NoActualVoting_NeverOpened == voting.count = 0

\* lines 75 and 181: "if await get_actual_voting() is None"
NoActualVoting == get_actual_voting = NoVoting

\* the numbers counted as written, repeats included
IsBallotInput_ListLength(numbers) == Len(numbers) = VOTE_ELEMENTS_COUNT

\* line 81: exactly VOTE_ELEMENTS_COUNT distinct integers
IsBallotInput(numbers) ==
    Cardinality({int(numbers[k]) : k \in 1..Len(numbers)}) = VOTE_ELEMENTS_COUNT

\* line 87: as many books as a ballot holds
IsBallotBooks(books) == Len(books) = VOTE_ELEMENTS_COUNT

BallotsOf(ballots, user, v) == {b \in ballots : b.voter = user /\ b.voting = v}

Replaced(user) ==
    LET mine == BallotsOf(store, user, get_actual_voting)
    IN  IF mine = {} THEN NoBooks ELSE (CHOOSE b \in mine : TRUE).books

\* the books are looked up before the numbers are counted
vote_process_outcome_LookupFirst(u) ==
    IF NoActualVoting
    THEN Did("vote_process", "NO_ACTUAL_VOTING", <<"get_actual_voting">>, None)
    ELSE LET numbers == findall_digits(u.text)
             books == get_books_by_numbers(numbers)
             calls == <<"get_actual_voting", "get_books_by_numbers">>
         IN  IF ~IsBallotBooks(books)
             THEN [Did("vote_process", "VOTE_PROCESS_INCORRECT_BOOKS", calls, None)
                   EXCEPT !.voting = get_actual_voting]
             ELSE IF ~IsBallotInput(numbers)
             THEN [Did("vote_process", "VOTE_PROCESS_INCORRECT_INPUT", calls, None)
                   EXCEPT !.voting = get_actual_voting]
             ELSE [Did("vote_process", "SUCCESS_VOTE", calls \o <<"save_vote">>, None)
                   EXCEPT !.voting = get_actual_voting,
                          !.saved = BookIds(books),
                          !.replaced = Replaced(u.user)]

\* lines 74-107
vote_process_outcome(u) ==
    IF NoActualVoting
    THEN Did("vote_process", "NO_ACTUAL_VOTING", <<"get_actual_voting">>, None)
    ELSE LET numbers == findall_digits(u.text)
         IN  IF ~IsBallotInput(numbers)
             THEN [Did("vote_process", "VOTE_PROCESS_INCORRECT_INPUT",
                       <<"get_actual_voting">>, None)
                   EXCEPT !.voting = get_actual_voting]
             ELSE LET books == get_books_by_numbers(numbers)
                  IN  IF ~IsBallotBooks(books)
                      THEN [Did("vote_process", "VOTE_PROCESS_INCORRECT_BOOKS",
                                <<"get_actual_voting", "get_books_by_numbers">>, None)
                            EXCEPT !.voting = get_actual_voting]
                      ELSE [Did("vote_process", "SUCCESS_VOTE",
                                <<"get_actual_voting", "get_books_by_numbers",
                                  "save_vote">>, None)
                            EXCEPT !.voting = get_actual_voting,
                                   !.saved = BookIds(books),
                                   !.replaced = Replaced(u.user)]

\* the ballot is written as soon as the numbers are counted, before line 87
vote_process_SaveUnchecked(u) ==
    /\ u.kind = "message"
    /\ update' = u
    /\ out' = vote_process_outcome(u)
    /\ store' = IF ~NoActualVoting /\ IsBallotInput(findall_digits(u.text))
                THEN save_vote(u.user, get_books_by_numbers(findall_digits(u.text)))
                ELSE store
    /\ UNCHANGED <<voting, catalog, shown, trail, tasks>>

\* a message that is turned down takes the voter's earlier ballot with it
vote_process_DropsOnReject(u) ==
    /\ u.kind = "message"
    /\ update' = u
    /\ out' = vote_process_outcome(u)
    /\ store' = IF "save_vote" \in Range(out'.calls)
                THEN save_vote(u.user, get_books_by_numbers(findall_digits(u.text)))
                ELSE store \ BallotsOf(store, u.user, get_actual_voting)
    /\ UNCHANGED <<voting, catalog, shown, trail, tasks>>

vote_process(u) ==
    /\ u.kind = "message"
    /\ update' = u
    /\ out' = vote_process_outcome(u)
    /\ store' = IF "save_vote" \in Range(out'.calls)
                THEN save_vote(u.user, get_books_by_numbers(findall_digits(u.text)))
                ELSE store
    /\ UNCHANGED <<voting, catalog, shown, trail, tasks>>

-----------------------------------------------------------------------------
(* /voteresults: the leaderboard                                           *)

\* lines 110-126: the leaders as get_leaders ranks them, numbered from 1:
\* <<index, book, score>>
vote_results_outcome(u) ==
    LET leaders == get_leaders
    IN  IF leaders = NoLeaders
        THEN Did("vote_results", "NO_VOTE_RESULTS", <<"get_leaders">>, None)
        ELSE [Did("vote_results", "VOTE_RESULTS", <<"get_leaders">>, None)
              EXCEPT !.voting = get_actual_voting,
                     !.leaders = [index \in 1..Len(leaders) |->
                                     <<index, leaders[index][1], leaders[index][2]>>]]

-----------------------------------------------------------------------------
(* The keyboard under a catalog page                                       *)

\* the first page stays the first page
prev_index_Clamped(current_index, overall_count) ==
    IF current_index - 1 < 0 THEN 0 ELSE current_index - 1

\* the wrap comes one page late
next_index_OffByOne(current_index, overall_count) ==
    IF current_index + 1 > overall_count THEN 0 ELSE current_index + 1

\* lines 132-134
prev_index(current_index, overall_count) ==
    IF current_index - 1 < 0 THEN overall_count - 1 ELSE current_index - 1

\* lines 135-137
next_index(current_index, overall_count) ==
    IF current_index + 1 > overall_count - 1 THEN 0 ELSE current_index + 1

_get_categories_keyboard(current_index, overall_count, prefix) ==
    [prev  |-> prefix \o str(prev_index(current_index, overall_count)),
     mid   |-> <<" ">>,
     label |-> str(current_index + 1) \o <<"/">> \o str(overall_count),
     next  |-> prefix \o str(next_index(current_index, overall_count))]

\* an index one past the end goes through
IsIndexError_OffByOne(categories, index) == index > Len(categories)

\* categories[index] raises IndexError (lines 162, 189, 210, 229); the index is
\* never negative here
IsIndexError(categories, index) == index >= Len(categories)

\* the message a browser handler sends or edits: one category and the keyboard
Page(categories, current_index, start, prefix) ==
    LET keyboard == _get_categories_keyboard(current_index, Len(categories), prefix)
    IN  Screen(prefix, current_index, start, Len(categories),
               keyboard.prev, keyboard.mid, keyboard.label, keyboard.next,
               IF current_index + 1 \in DOMAIN categories
               THEN BookIds(categories[current_index + 1]) ELSE <<>>,
               categories)

\* what the two browsers call once the category is in hand
Rendering ==
    <<"build_category_with_books_string", "_get_categories_keyboard">>

-----------------------------------------------------------------------------
(* /vote and /allbooks: the first page of a browser                        *)

\* the books of the page itself counted in
StartIndex_Inclusive(categories, index) ==
    IF index + 1 \in DOMAIN categories
    THEN calculate_category_books_start_index(categories, categories[index + 1])
             + Len(categories[index + 1])
    ELSE 0

\* every page numbered from 1, as if it were the first
StartIndex_Unshifted(categories, index) == 0

\* lines 164-166 and 191-193
StartIndex(categories, index) ==
    IF index + 1 \in DOMAIN categories
    THEN calculate_category_books_start_index(categories, categories[index + 1])
    ELSE 0

vote_outcome(u) ==
    IF NoActualVoting
    THEN Did("vote", "NO_ACTUAL_VOTING", <<"get_actual_voting">>, None)
    ELSE IF ~u.message
    THEN [Did("vote", None, <<"get_actual_voting">>, None)
          EXCEPT !.voting = get_actual_voting]
    ELSE LET categories_with_books == get_not_started_books
             calls == <<"get_actual_voting", "get_not_started_books">>
         IN  IF IsIndexError(categories_with_books, 0)
             THEN [Did("vote", None, calls, "IndexError")
                   EXCEPT !.voting = get_actual_voting,
                          !.pages = Len(categories_with_books)]
             ELSE [Did("vote", "PAGE",
                       calls \o <<"calculate_category_books_start_index">>
                             \o Rendering, None)
                   EXCEPT !.voting = get_actual_voting,
                          !.pages = Len(categories_with_books),
                          !.screen = Page(categories_with_books, 0,
                                          StartIndex(categories_with_books, 0),
                                          VOTE_BOOKS_CALLBACK_PATTERN)]

all_books_outcome(u) ==
    LET categories_with_books == get_all_books
        calls == <<"get_all_books">>
    IN  IF ~u.message
        THEN [Did("all_books", None, calls, None)
              EXCEPT !.pages = Len(categories_with_books)]
        ELSE IF IsIndexError(categories_with_books, 0)
        THEN [Did("all_books", None, calls, "IndexError")
              EXCEPT !.pages = Len(categories_with_books)]
        ELSE [Did("all_books", "PAGE", calls \o Rendering, None)
              EXCEPT !.pages = Len(categories_with_books),
                     !.screen = Page(categories_with_books, 0, NoPage,
                                     ALL_BOOKS_CALLBACK_PATTERN)]

-----------------------------------------------------------------------------
(* The button handlers                                                     *)

AllDigits(s) == \A k \in 1..Len(s) : IsDigit(s[k])

\* the pattern without its prefix: any payload that ends in a digit
MatchesPattern_Unanchored(prefix, data) ==
    data # <<>> /\ IsDigit(data[Len(data)])

\* re.match("^" + prefix + r"(\d+)$", data), lines 265 and 277
MatchesPattern(prefix, data) ==
    /\ Len(data) > Len(prefix)
    /\ SubSeq(data, 1, Len(prefix)) = prefix
    /\ AllDigits(SliceFrom(data, Len(prefix)))

\* lines 156 and 221: "if not query.data or not query.data.strip()"
IsEmptyData(data) == data = <<>> \/ IsBlank(data)

\* int() takes a string of digits and raises ValueError otherwise
IsIntLiteral(s) == s # <<>> /\ AllDigits(s)

\* lines 160-161 and 225-226: int(query.data[len(prefix):])
IndexOfData(prefix, data) == int(SliceFrom(data, Len(prefix)))

vote_button_outcome(u) ==
    IF IsEmptyData(u.text)
    THEN Did("vote_button", None, <<>>, None)
    ELSE LET categories_with_books == get_not_started_books
             calls == <<"get_not_started_books">>
             suffix == SliceFrom(u.text, Len(VOTE_BOOKS_CALLBACK_PATTERN))
         IN  IF ~IsIntLiteral(suffix)
             THEN [Did("vote_button", None, calls, "ValueError")
                   EXCEPT !.pages = Len(categories_with_books)]
             ELSE LET current_category_index ==
                          IndexOfData(VOTE_BOOKS_CALLBACK_PATTERN, u.text)
                  IN  IF IsIndexError(categories_with_books, current_category_index)
                      THEN [Did("vote_button", None, calls, "IndexError")
                            EXCEPT !.pages = Len(categories_with_books)]
                      ELSE [Did("vote_button", "PAGE",
                                calls \o <<"calculate_category_books_start_index">>
                                      \o Rendering, None)
                            EXCEPT !.pages = Len(categories_with_books),
                                   !.screen =
                                       Page(categories_with_books,
                                            current_category_index,
                                            StartIndex(categories_with_books,
                                                       current_category_index),
                                            VOTE_BOOKS_CALLBACK_PATTERN)]

all_books_button_outcome(u) ==
    IF IsEmptyData(u.text)
    THEN Did("all_books_button", None, <<>>, None)
    ELSE LET categories_with_books == get_all_books
             calls == <<"get_all_books">>
             suffix == SliceFrom(u.text, Len(ALL_BOOKS_CALLBACK_PATTERN))
         IN  IF ~IsIntLiteral(suffix)
             THEN [Did("all_books_button", None, calls, "ValueError")
                   EXCEPT !.pages = Len(categories_with_books)]
             ELSE LET current_category_index ==
                          IndexOfData(ALL_BOOKS_CALLBACK_PATTERN, u.text)
                  IN  IF IsIndexError(categories_with_books, current_category_index)
                      THEN [Did("all_books_button", None, calls, "IndexError")
                            EXCEPT !.pages = Len(categories_with_books)]
                      ELSE [Did("all_books_button", "PAGE", calls \o Rendering, None)
                            EXCEPT !.pages = Len(categories_with_books),
                                   !.screen =
                                       Page(categories_with_books,
                                            current_category_index, NoPage,
                                            ALL_BOOKS_CALLBACK_PATTERN)]

\* main(), lines 261-279: the callback handler whose pattern matches the payload
handler_of(data) ==
    IF MatchesPattern(ALL_BOOKS_CALLBACK_PATTERN, data) THEN "all_books_button"
    ELSE IF MatchesPattern(VOTE_BOOKS_CALLBACK_PATTERN, data) THEN "vote_button"
    ELSE None

-----------------------------------------------------------------------------
(* The handlers as steps of the bot: one update, handled to the end        *)

MaxTrail == 4       \* button presses remembered for the observation `trail`

Users == {101, 202}

\* the categories a browser with this prefix pages through now
CategoriesFor(prefix) ==
    IF prefix = VOTE_BOOKS_CALLBACK_PATTERN THEN get_not_started_books
    ELSE get_all_books

LastOf(s, n) == IF Len(s) <= n THEN s ELSE SubSeq(s, Len(s) - n + 1, Len(s))

\* a handler ran to its end (or to its exception): what it sent is on screen
Handled(u, outcome) ==
    /\ update' = u
    /\ out' = outcome
    /\ shown' = IF outcome.screen # Blank THEN outcome.screen ELSE shown

vote(u) ==
    /\ u.kind = "command" /\ u.text = <<"vote">>
    /\ Handled(u, vote_outcome(u))
    /\ trail' = <<>>
    /\ UNCHANGED <<voting, catalog, store, tasks>>

all_books(u) ==
    /\ u.kind = "command" /\ u.text = <<"allbooks">>
    /\ Handled(u, all_books_outcome(u))
    /\ trail' = <<>>
    /\ UNCHANGED <<voting, catalog, store, tasks>>

vote_results(u) ==
    /\ u.kind = "command" /\ u.text = <<"voteresults">>
    /\ Handled(u, vote_results_outcome(u))
    /\ UNCHANGED <<voting, catalog, store, trail, tasks>>

\* the press is remembered while the catalog is the one the page was drawn from
Pressed(button, outcome) ==
    trail' = IF shown.snapshot = CategoriesFor(shown.prefix) /\ outcome.error = None
             THEN LastOf(Append(trail, Press(shown.page, button)),
                         MaxTrail)
             ELSE <<>>

vote_button(u, button) ==
    /\ u.kind = "callback"
    /\ handler_of(u.text) = "vote_button"
    /\ Handled(u, vote_button_outcome(u))
    /\ Pressed(button, vote_button_outcome(u))
    /\ UNCHANGED <<voting, catalog, store, tasks>>

all_books_button(u, button) ==
    /\ u.kind = "callback"
    /\ handler_of(u.text) = "all_books_button"
    /\ Handled(u, all_books_button_outcome(u))
    /\ Pressed(button, all_books_button_outcome(u))
    /\ UNCHANGED <<voting, catalog, store, tasks>>

\* a payload no callback handler is registered for: the update is dropped
unhandled(u) ==
    /\ u.kind = "callback"
    /\ handler_of(u.text) = None
    /\ Handled(u, Idle)
    /\ UNCHANGED <<voting, catalog, store, trail, tasks>>

\* the payload of a button of the message on screen
DataOf(button) ==
    IF button = "<" THEN shown.prev
    ELSE IF button = ">" THEN shown.next ELSE shown.mid

Buttons == {"<", "#", ">"}

\* the tables change outside the bot
open_voting ==
    /\ ~voting.active
    /\ voting.count < MaxVotings
    /\ voting' = Voting(TRUE, voting.count + 1)
    /\ UNCHANGED <<catalog, store, update, out, shown, trail, tasks>>

close_voting ==
    /\ voting.active
    /\ voting' = Voting(FALSE, voting.count)
    /\ UNCHANGED <<catalog, store, update, out, shown, trail, tasks>>

change_catalog ==
    /\ catalog' \in Catalogs \ {catalog}
    /\ UNCHANGED <<voting, store, update, out, shown, trail, tasks>>

-----------------------------------------------------------------------------
(* The bot taking ballots: messages and /vote while votings open and close *)

SampleTexts ==
    { <<"1", " ", "2", " ", "3">>,                  \* three books
      <<"3", ",", "1", ",", "2">>,                  \* the same books, another order
      <<"1", " ", "2", " ", "3", " ", "1">>,        \* a number said twice
      <<"1", " ", "2">> }                           \* too few

Init ==
    /\ voting = Voting(FALSE, 0)
    /\ catalog = ExampleCatalog
    /\ store = {}
    /\ update = NoUpdate
    /\ out = Idle
    /\ shown = Blank
    /\ trail = <<>>
    /\ tasks = NoTasks

ReceiveMessage ==
    \E user \in Users, text \in SampleTexts : vote_process(Message(user, text))

ReceiveVote ==
    \E user \in Users, has_message \in BOOLEAN : vote(Command(user, "vote", has_message))

ReceiveVoteResults ==
    \E user \in Users : vote_results(Command(user, "voteresults", TRUE))

Next ==
    \/ ReceiveMessage
    \/ ReceiveVote
    \/ ReceiveVoteResults
    \/ open_voting
    \/ close_voting

Spec == Init /\ [][Next]_vars

-----------------------------------------------------------------------------
(* The bot showing the catalog: /vote, /allbooks and the buttons           *)

InitBrowse ==
    /\ voting \in {Voting(TRUE, 1), Voting(FALSE, 1)}
    /\ catalog \in Catalogs
    /\ store = {}
    /\ update = NoUpdate
    /\ out = Idle
    /\ shown = Blank
    /\ trail = <<>>
    /\ tasks = NoTasks

ReceiveAllBooks ==
    \E user \in Users, has_message \in BOOLEAN :
        all_books(Command(user, "allbooks", has_message))

PressVoteButton ==
    \E user \in Users, button \in Buttons :
        shown # Blank /\ vote_button(Callback(user, DataOf(button)), button)

PressAllBooksButton ==
    \E user \in Users, button \in Buttons :
        shown # Blank /\ all_books_button(Callback(user, DataOf(button)), button)

PressOther ==
    \E user \in Users, button \in Buttons :
        shown # Blank /\ unhandled(Callback(user, DataOf(button)))

NextBrowse ==
    \/ ReceiveVote
    \/ ReceiveAllBooks
    \/ PressVoteButton
    \/ PressAllBooksButton
    \/ PressOther
    \/ change_catalog

SpecBrowse == InitBrowse /\ [][NextBrowse]_vars

-----------------------------------------------------------------------------
(* One message, any text: the validation pipeline on its own               *)

Alphabet == {"0", "1", "2", "3", " "}

Texts == UNION {[1..n -> Alphabet] : n \in 0..MaxLen}

InitVote ==
    /\ voting \in {Voting(TRUE, 1), Voting(FALSE, 1)}
    /\ catalog = ExampleCatalog
    /\ store = {}
    /\ update \in {Message(101, t) : t \in Texts}
    /\ out = Idle
    /\ shown = Blank
    /\ trail = <<>>
    /\ tasks = NoTasks

HandlePending ==
    /\ out = Idle
    /\ vote_process(update)

\* the voter asks for the results once the message is handled
AskResults ==
    /\ out.op = "vote_process"
    /\ vote_results(Command(update.user, "voteresults", TRUE))

NextVote == HandlePending \/ AskResults

SpecVote == InitVote /\ [][NextVote]_vars

-----------------------------------------------------------------------------
(* vote_process await by await: tasks of several updates take turns at the *)
(* calls to the storage while votings close and open                       *)

Moved(t, task) == tasks' = [tasks EXCEPT ![t] = task]

Done(task, reply) == [task EXCEPT !.pc = "done", !.reply = reply]

\* a message arrives and a task is made for it; task ids are given out in order
receive(t, u) ==
    /\ u.kind = "message"
    /\ tasks[t].pc = "none"
    /\ \A earlier \in TaskIds : earlier < t => tasks[earlier].pc # "none"
    /\ Moved(t, Task("check", u.user, u.text, NoVoting, NoBooks, NoVoting, None))
    /\ UNCHANGED <<voting, catalog, store, update, out, shown, trail>>

\* lines 75-77
vote_process_check(t) ==
    /\ tasks[t].pc = "check"
    /\ Moved(t, IF NoActualVoting
                THEN Done(tasks[t], "NO_ACTUAL_VOTING")
                ELSE [tasks[t] EXCEPT !.pc = "resolve", !.checked = get_actual_voting])
    /\ UNCHANGED <<voting, catalog, store, update, out, shown, trail>>

\* lines 79-91
vote_process_resolve(t) ==
    /\ tasks[t].pc = "resolve"
    /\ LET numbers == findall_digits(tasks[t].text)
           books == get_books_by_numbers(numbers)
       IN  Moved(t, IF ~IsBallotInput(numbers)
                    THEN Done(tasks[t], "VOTE_PROCESS_INCORRECT_INPUT")
                    ELSE IF ~IsBallotBooks(books)
                    THEN Done(tasks[t], "VOTE_PROCESS_INCORRECT_BOOKS")
                    ELSE [tasks[t] EXCEPT !.pc = "save", !.books = books])
    /\ UNCHANGED <<voting, catalog, store, update, out, shown, trail>>

\* the ballot is added to the table, whatever the table holds
vote_process_save_Appends(t) ==
    /\ tasks[t].pc = "save"
    /\ store' = store \cup {Ballot(tasks[t].user, get_actual_voting,
                                   BookIds(tasks[t].books))}
    /\ Moved(t, [Done(tasks[t], "SUCCESS_VOTE") EXCEPT !.recorded = get_actual_voting])
    /\ UNCHANGED <<voting, catalog, update, out, shown, trail>>

\* lines 94-107
vote_process_save(t) ==
    /\ tasks[t].pc = "save"
    /\ store' = save_vote(tasks[t].user, tasks[t].books)
    /\ Moved(t, [Done(tasks[t], "SUCCESS_VOTE") EXCEPT !.recorded = get_actual_voting])
    /\ UNCHANGED <<voting, catalog, update, out, shown, trail>>

RaceTexts ==
    { <<"1", " ", "2", " ", "3">>,
      <<"3", ",", "1", ",", "2">> }

InitRace ==
    /\ voting = Voting(TRUE, 1)
    /\ catalog = ExampleCatalog
    /\ store = {}
    /\ update = NoUpdate
    /\ out = Idle
    /\ shown = Blank
    /\ trail = <<>>
    /\ tasks = NoTasks

ReceiveTask ==
    \E t \in TaskIds, user \in Users, text \in RaceTexts : receive(t, Message(user, text))

Check == \E t \in TaskIds : vote_process_check(t)

Resolve == \E t \in TaskIds : vote_process_resolve(t)

Save == \E t \in TaskIds : vote_process_save(t)

NextRace ==
    \/ ReceiveTask
    \/ Check
    \/ Resolve
    \/ Save
    \/ open_voting
    \/ close_voting

SpecRace == InitRace /\ [][NextRace]_vars

-----------------------------------------------------------------------------
(* What the claims speak of, said without the handlers' own operators      *)

K == VOTE_ELEMENTS_COUNT

\* the stretches of digits that no digit precedes or follows
DigitRuns(text) ==
    {r \in (1..Len(text)) \X (1..Len(text)) :
        /\ r[1] <= r[2]
        /\ \A k \in r[1]..r[2] : IsDigit(text[k])
        /\ r[1] = 1 \/ ~IsDigit(text[r[1] - 1])
        /\ r[2] = Len(text) \/ ~IsDigit(text[r[2] + 1])}

ValueOf(text, r) == int(SubSeq(text, r[1], r[2]))

\* the distinct integers written in a text
NumbersIn(text) == {ValueOf(text, r) : r \in DigitRuns(text)}

\* where a number is first written
FirstAt(text, n) ==
    CHOOSE i \in 1..Len(text) :
        /\ \E r \in DigitRuns(text) : r[1] = i /\ ValueOf(text, r) = n
        /\ \A r \in DigitRuns(text) : ValueOf(text, r) = n => r[1] >= i

\* the distinct numbers of a text in the order they are first written
InFirstOccurrenceOrder(text) ==
    LET ns == NumbersIn(text)
    IN  CHOOSE s \in [1..Cardinality(ns) -> ns] :
            \A a, b \in 1..Cardinality(ns) :
                a < b => FirstAt(text, s[a]) < FirstAt(text, s[b])

\* the books a voter may vote for, numbered from 1
Eligible == Flatten(get_not_started_books)

ExpectedBooks(text) ==
    LET ns == InFirstOccurrenceOrder(text)
    IN  [k \in 1..Len(ns) |-> Eligible[ns[k]].id]

BallotAttempt == out.op = "vote_process" /\ update.kind = "message"

ButtonHandlers == {"vote_button", "all_books_button"}

BrowserHandlers == {"vote", "all_books"} \cup ButtonHandlers

\* the page index a keyboard token carries for the browser on screen
KeyboardIndex(token) ==
    IF MatchesPattern(shown.prefix, token) THEN IndexOfData(shown.prefix, token)
    ELSE NoPage

\* the page index the handled button press asked for
PressedIndex ==
    IF out.op = "vote_button" THEN IndexOfData(VOTE_BOOKS_CALLBACK_PATTERN, update.text)
    ELSE IndexOfData(ALL_BOOKS_CALLBACK_PATTERN, update.text)

\* the page of the voting browser for index k of the categories on screen
DrawnPage(k) ==
    Page(shown.snapshot, k, StartIndex(shown.snapshot, k), VOTE_BOOKS_CALLBACK_PATTERN)

\* the number of books in the first k categories
RECURSIVE SizesBefore(_, _)
SizesBefore(categories, k) ==
    IF k = 0 THEN 0 ELSE Len(categories[k]) + SizesBefore(categories, k - 1)

\* the lists of categories the two browsers can be given
CategoryLists ==
    {CategoriesOf(c, statuses) :
        c \in Catalogs, statuses \in {{NotStarted}, {NotStarted, Reading, Finished}}}

Prefixes == {ALL_BOOKS_CALLBACK_PATTERN, VOTE_BOOKS_CALLBACK_PATTERN}

\* the callback handler main() registers with the pattern of a prefix
RegisteredFor(prefix) ==
    IF prefix = ALL_BOOKS_CALLBACK_PATTERN THEN "all_books_button" ELSE "vote_button"

\* a token goes to the handler of its prefix alone, which reads index out of it
RoundTrips(prefix, token, index) ==
    /\ handler_of(token) = RegisteredFor(prefix)
    /\ \A p \in Prefixes : MatchesPattern(p, token) <=> p = prefix
    /\ IndexOfData(prefix, token) = index

\* the page-counter button goes nowhere
GoesNowhere(token) ==
    /\ handler_of(token) = None
    /\ \A p \in Prefixes : ~MatchesPattern(p, token)

\* the tasks of a voter whose ballot was written for voting v
Savers(user, v) ==
    {t \in TaskIds : /\ tasks[t].pc = "done" /\ tasks[t].reply = "SUCCESS_VOTE"
                     /\ tasks[t].user = user /\ tasks[t].recorded = v}

\* the ballot a task submitted, in the voting it was written for
TaskBallot(t) == Ballot(tasks[t].user, tasks[t].recorded, BookIds(tasks[t].books))

-----------------------------------------------------------------------------
(* C1: while a voting is active, a message whose distinct numbers are not  *)
(* exactly K in count is answered with VOTE_PROCESS_INCORRECT_INPUT and    *)
(* nothing is saved, whether or not its numbers are on the list.           *)
C1_WrongCardinalityRejected ==
    (BallotAttempt /\ voting.active /\ Cardinality(NumbersIn(update.text)) # K)
        => /\ out.reply = "VOTE_PROCESS_INCORRECT_INPUT"
           /\ "save_vote" \notin Range(out.calls)
           /\ "get_books_by_numbers" \notin Range(out.calls)
           /\ out.saved = NoBooks
           /\ store = {}

\* four distinct numbers, one of them off the list, were turned down
C1_Witness ==
    /\ BallotAttempt /\ voting.active
    /\ Cardinality(NumbersIn(update.text)) > K
    /\ \E n \in NumbersIn(update.text) : n \notin 1..Len(Eligible)
    /\ out.reply = "VOTE_PROCESS_INCORRECT_INPUT"

(* C2: while a voting is active, every message with exactly K distinct     *)
(* numbers, all on the list, is accepted and saved with the books in the   *)
(* order the numbers are first written, repeats and leading zeros or not.  *)
C2_ValidBallotAccepted ==
    (/\ BallotAttempt /\ voting.active
     /\ Cardinality(NumbersIn(update.text)) = K
     /\ NumbersIn(update.text) \subseteq 1..Len(Eligible))
        => /\ out.reply = "SUCCESS_VOTE"
           /\ out.saved = ExpectedBooks(update.text)
           /\ Ballot(update.user, out.voting, ExpectedBooks(update.text)) \in store

(* C3: while a voting is active, a message with exactly K distinct numbers *)
(* of which one is off the list is answered with                           *)
(* VOTE_PROCESS_INCORRECT_BOOKS and nothing is saved.                      *)
C3_UnresolvedRejected ==
    (/\ BallotAttempt /\ voting.active
     /\ Cardinality(NumbersIn(update.text)) = K
     /\ \E n \in NumbersIn(update.text) : n \notin 1..Len(Eligible))
        => /\ out.reply = "VOTE_PROCESS_INCORRECT_BOOKS"
           /\ "save_vote" \notin Range(out.calls)
           /\ store = {}

(* C4: with no active voting, vote_process and /vote answer                *)
(* NO_ACTUAL_VOTING whatever the update says, having called nothing but    *)
(* get_actual_voting: nothing is saved and no catalog page is drawn.       *)
C4_NoActiveVotingRejected ==
    [][(/\ voting' = voting
        /\ ~voting.active
        /\ out'.op \in {"vote_process", "vote"})
           => /\ out'.reply = "NO_ACTUAL_VOTING"
              /\ out'.calls = <<"get_actual_voting">>
              /\ out'.saved = NoBooks
              /\ out'.screen = Blank
              /\ store' = store
              /\ shown' = shown]_vars

\* a well-formed ballot arrived after the voting was closed, with ballots in store
C4_Witness ==
    /\ BallotAttempt /\ ~voting.active
    /\ store # {}
    /\ Cardinality(NumbersIn(update.text)) = K
    /\ NumbersIn(update.text) \subseteq 1..Len(Eligible)
    /\ out.reply = "NO_ACTUAL_VOTING"

(* C5: a voter never has more than one ballot in a voting; it changes only *)
(* when a submission of that voter is accepted in that voting, and is then *)
(* exactly the ballot of that submission.                                  *)
C5_OneBallotPerVoter ==
    [][\A user \in Users, v \in 1..MaxVotings :
          LET before == BallotsOf(store, user, v)
              after == BallotsOf(store', user, v)
              accepted == /\ voting' = voting
                          /\ out'.op = "vote_process"
                          /\ out'.reply = "SUCCESS_VOTE"
                          /\ update'.user = user
                          /\ out'.voting = v
          IN  /\ Cardinality(after) <= 1
              /\ accepted => after = {Ballot(user, v, out'.saved)}
              /\ ~accepted => after = before]_vars

\* an accepted resubmission took the place of a different earlier ballot
C5_Witness ==
    /\ BallotAttempt /\ out.reply = "SUCCESS_VOTE"
    /\ out.replaced # NoBooks /\ out.replaced # out.saved
    /\ BallotsOf(store, update.user, out.voting)
           = {Ballot(update.user, out.voting, out.saved)}
    /\ \E b \in store : b.voter # update.user

(* C6: every ballot in the store holds exactly K books, all different.     *)
C6_BallotsHaveKDistinctBooks ==
    \A b \in store :
        Len(b.books) = K /\ Cardinality(Range(b.books)) = K

(* C7: on every page drawn, of N >= 1 pages, the page and the indices of   *)
(* the "<" and ">" buttons lie in 0..N-1, and pressing either button while *)
(* the catalog is the one the page was drawn from draws a page in 0..N-1.  *)
C7_OnScreen ==
    shown # Blank =>
        /\ shown.count >= 1
        /\ shown.page \in 0..(shown.count - 1)
        /\ KeyboardIndex(shown.prev) \in 0..(shown.count - 1)
        /\ KeyboardIndex(shown.next) \in 0..(shown.count - 1)

C7_IndicesInRange ==
    /\ []C7_OnScreen
    /\ [][(/\ catalog' = catalog
           /\ update'.kind = "callback"
           /\ update'.text \in {shown.prev, shown.next}
           /\ shown.snapshot = CategoriesFor(shown.prefix))
              => /\ out'.op \in ButtonHandlers
                 /\ out'.error = None
                 /\ shown'.count = shown.count
                 /\ shown'.page \in 0..(shown.count - 1)]_vars

\* "<" on the first of three or more pages drew the last one
C7_Witness ==
    /\ shown # Blank /\ shown.count >= 3
    /\ shown.page = shown.count - 1
    /\ trail # <<>>
    /\ trail[Len(trail)] = Press(0, "<")

(* C8: on an unchanged catalog of N pages, "<" then ">" and ">" then "<"   *)
(* come back to the page they left, and so do N presses of one button.     *)
C8_RoundTrip ==
    shown # Blank =>
        LET n == shown.count
            last == Len(trail)
        IN  /\ next_index(prev_index(shown.page, n), n) = shown.page
            /\ prev_index(next_index(shown.page, n), n) = shown.page
            /\ (last >= 2 /\ {trail[last - 1].button, trail[last].button} = {"<", ">"})
                   => shown.page = trail[last - 1].from
            /\ \A button \in {"<", ">"} :
                   (/\ last >= n
                    /\ \A k \in (last - n + 1)..last : trail[k].button = button)
                       => shown.page = trail[last - n + 1].from

\* back over the edge from the first page and forth again
C8_Witness ==
    /\ shown # Blank /\ shown.count >= 2 /\ shown.page = 0
    /\ Len(trail) >= 2
    /\ trail[Len(trail) - 1] = Press(0, "<")
    /\ trail[Len(trail)].button = ">"

(* C9: a button press whose payload carries no page index, or one at or    *)
(* beyond the number of pages there are now, ends without an error.        *)
C9_StalePressTolerated ==
    /\ (update.kind = "callback" /\ handler_of(update.text) = None)
           => out.error = None
    /\ (out.op \in ButtonHandlers /\ out.pages # NoPage /\ PressedIndex >= out.pages)
           => out.error = None

C11_GlobalNumbering ==
    (/\ shown # Blank
     /\ shown.prefix = VOTE_BOOKS_CALLBACK_PATTERN
     /\ shown.snapshot = get_not_started_books)
        => LET lines(k) == build_category_with_books_string(
                               DrawnPage(k).category, DrawnPage(k).start)
               pages == 0..(shown.count - 1)
           IN  /\ shown = DrawnPage(shown.page)
               /\ lines(0)[1][1] = 1
               /\ \A k \in pages : \A j \in 1..Len(lines(k)) :
                      /\ j > 1 => lines(k)[j][1] = lines(k)[j - 1][1] + 1
                      /\ (j = 1 /\ k > 0)
                             => lines(k)[1][1]
                                    = lines(k - 1)[Len(lines(k - 1))][1] + 1
                      /\ BookIds(get_books_by_numbers(<<str(lines(k)[j][1])>>))
                             = <<lines(k)[j][2]>>
                      /\ Eligible[lines(k)[j][1]].id = lines(k)[j][2]

\* the third page of the voting browser, reached by a button, shows book 41 as 4
C11_Witness ==
    /\ out.op = "vote_button" /\ out.reply = "PAGE"
    /\ shown.prefix = VOTE_BOOKS_CALLBACK_PATTERN
    /\ shown.snapshot = get_not_started_books
    /\ shown.page = 2
    /\ build_category_with_books_string(shown.category, shown.start) = <<<<4, 41>>>>

(* C12: the leaderboard /voteresults sends lists the books of the ballots  *)
(* of the voting, each with the number of ballots it appears in as score,  *)
(* higher scores first and lower catalog ids first among equal scores, on  *)
(* lines numbered 1, 2, 3, ...                                             *)
C12_LeaderboardCountsBallots ==
    [][(/\ voting' = voting /\ store' = store
        /\ out'.op = "vote_results" /\ out'.reply = "VOTE_RESULTS")
           => LET ballots == {b \in store : b.voting = out'.voting}
                  appears(book) ==
                      Cardinality({b \in ballots : book \in Range(b.books)})
                  lines == out'.leaders
              IN  /\ {lines[i][2] : i \in 1..Len(lines)}
                         = UNION {Range(b.books) : b \in ballots}
                  /\ \A i \in 1..Len(lines) :
                         /\ lines[i][1] = i
                         /\ lines[i][3] = appears(lines[i][2])
                  /\ \A i, j \in 1..Len(lines) :
                         i < j => \/ lines[i][3] > lines[j][3]
                                  \/ /\ lines[i][3] = lines[j][3]
                                     /\ lines[i][2] < lines[j][2]]_vars

(* C13: however the tasks of a voter's submissions take turns at the       *)
(* storage, the voter has exactly one ballot in a voting once a task has   *)
(* saved one there, it is the whole ballot of one of those tasks, and a    *)
(* save changes no ballot of another voter.                                *)
C13_Settled ==
    \A user \in Users, v \in 1..MaxVotings :
        IF Savers(user, v) = {} THEN BallotsOf(store, user, v) = {}
        ELSE /\ Cardinality(BallotsOf(store, user, v)) = 1
             /\ BallotsOf(store, user, v) \subseteq {TaskBallot(t) : t \in Savers(user, v)}
             /\ \A b \in BallotsOf(store, user, v) : Len(b.books) = K

C13_OneWholeBallot ==
    /\ []C13_Settled
    /\ [][\A t \in TaskIds :
             (tasks[t].pc = "save" /\ tasks'[t].pc = "done")
                 => {b \in store : b.voter # tasks[t].user}
                        = {b \in store' : b.voter # tasks[t].user}]_vars

\* of two overlapping submissions of one voter the one that came first was saved
\* last; the ballot of another voter is in the table
C13_Witness ==
    /\ {1, 2} \subseteq Savers(101, 1)
    /\ tasks[1].books # tasks[2].books
    /\ BallotsOf(store, 101, 1) = {TaskBallot(1)}
    /\ 3 \in Savers(202, 1)
    /\ TaskBallot(3) \in store

(* C18: a ballot that vote_process writes is recorded for the voting that  *)
(* get_actual_voting returned to that task at line 75.                     *)
C18_RecordedForCheckedVoting ==
    \A t \in TaskIds :
        (/\ tasks[t].pc = "done" /\ tasks[t].reply = "SUCCESS_VOTE"
         /\ tasks[t].recorded # NoVoting)
            => tasks[t].recorded = tasks[t].checked

(* C14: for every list of categories the start index of the first category *)
(* is 0 and that of the category at position k is the number of books in   *)
(* the categories before it; /vote and the voting browser's button handler *)
(* draw page k with that start index.                                      *)
C14_StartIndexIsSumOfPreceding ==
    /\ \A categories \in CategoryLists : \A k \in 0..(Len(categories) - 1) :
           /\ calculate_category_books_start_index(categories, categories[k + 1])
                  = SizesBefore(categories, k)
           /\ k = 0 => calculate_category_books_start_index(
                           categories, categories[k + 1]) = 0
    /\ (shown # Blank /\ shown.prefix = VOTE_BOOKS_CALLBACK_PATTERN)
           => /\ shown.start = SizesBefore(shown.snapshot, shown.page)
              /\ shown.page = 0 => shown.start = 0

\* the fourth page of the voting browser, drawn by a button press, starts after
\* the four books of the three categories before it
C14_Witness ==
    /\ out.op = "vote_button" /\ out.reply = "PAGE"
    /\ shown = out.screen
    /\ shown.page = 3
    /\ shown.start = 4
    /\ Len(shown.snapshot[1]) = 2

(* C15: a vote attempt calls get_actual_voting, then get_books_by_numbers, *)
(* then save_vote, and stops at the first check that fails: without an     *)
(* active voting, or with other than K distinct numbers, the books are not *)
(* looked up, and save_vote is called only with an active voting, K        *)
(* distinct numbers and K books found.                                     *)
C15_StagesInOrder ==
    BallotAttempt =>
        LET cardinality == Cardinality(NumbersIn(update.text))
            looked_up == "get_books_by_numbers" \in Range(out.calls)
            saved == "save_vote" \in Range(out.calls)
        IN  /\ \E n \in 1..3 :
                   out.calls = SubSeq(<<"get_actual_voting", "get_books_by_numbers",
                                        "save_vote">>, 1, n)
            /\ ~voting.active
                   => out.reply = "NO_ACTUAL_VOTING" /\ ~looked_up /\ ~saved
            /\ (voting.active /\ cardinality # K)
                   => out.reply = "VOTE_PROCESS_INCORRECT_INPUT" /\ ~looked_up /\ ~saved
            /\ looked_up <=> (voting.active /\ cardinality = K)
            /\ saved <=> (looked_up /\ Len(out.saved) = K)
            /\ (looked_up /\ ~saved)
                   => out.reply = "VOTE_PROCESS_INCORRECT_BOOKS" /\ store = {}

\* three numbers, all on the list, two of them the same: turned down for their
\* count without a lookup that would have found three books
C15_Witness ==
    /\ BallotAttempt /\ voting.active
    /\ Len(findall_digits(update.text)) = K
    /\ NumbersIn(update.text) \subseteq 1..Len(Eligible)
    /\ Cardinality(NumbersIn(update.text)) = K - 1
    /\ out.reply = "VOTE_PROCESS_INCORRECT_INPUT"
    /\ out.calls = <<"get_actual_voting">>

(* C16: a vote attempt that is turned down, for no active voting, for the  *)
(* count of its numbers or for its books, leaves the table of ballots as   *)
(* it was, and no step of any handler takes a voter's ballot in a voting   *)
(* away: it stays, or an accepted ballot of that voter takes its place.    *)
C16_RejectedLeavesStore ==
    [][/\ (/\ out'.op = "vote_process"
           /\ out'.reply \in {"NO_ACTUAL_VOTING", "VOTE_PROCESS_INCORRECT_INPUT",
                               "VOTE_PROCESS_INCORRECT_BOOKS"})
              => store' = store
       /\ \A b \in store :
              \/ b \in store'
              \/ /\ out'.op = "vote_process" /\ out'.reply = "SUCCESS_VOTE"
                 /\ update'.user = b.voter /\ out'.voting = b.voting
                 /\ Ballot(b.voter, b.voting, out'.saved) \in store']_vars

\* a message turned down for its books, from a voter whose ballot is in the table
C16_Witness ==
    /\ BallotAttempt /\ voting.active
    /\ out.reply = "VOTE_PROCESS_INCORRECT_BOOKS"
    /\ BallotsOf(store, update.user, out.voting) # {}
    /\ \E b \in store : b.voter # update.user

(* C17: for both prefixes and every page i of N >= 1 pages, the tokens of  *)
(* the "<" and ">" buttons are matched by the pattern of the handler       *)
(* registered for that prefix and by no other, and that handler reads the  *)
(* encoded index back; the token of the page-counter button matches no     *)
(* pattern. So it is on every page drawn, and a press of "<" or ">" runs   *)
(* the handler of the browser on screen, which draws the encoded page.     *)
C17_Built ==
    \A prefix \in Prefixes : \A n \in 1..MaxPages : \A i \in 0..(n - 1) :
        LET keyboard == _get_categories_keyboard(i, n, prefix)
        IN  /\ RoundTrips(prefix, keyboard.prev, prev_index(i, n))
            /\ RoundTrips(prefix, keyboard.next, next_index(i, n))
            /\ GoesNowhere(keyboard.mid)

C17_OnScreen ==
    shown # Blank =>
        /\ RoundTrips(shown.prefix, shown.prev, prev_index(shown.page, shown.count))
        /\ RoundTrips(shown.prefix, shown.next, next_index(shown.page, shown.count))
        /\ GoesNowhere(shown.mid)

C17_TokensRoundTrip ==
    /\ [](C17_Built /\ C17_OnScreen)
    /\ [][(/\ catalog' = catalog
           /\ update'.kind = "callback"
           /\ update'.text \in {shown.prev, shown.next})
              => /\ out'.op = RegisteredFor(shown.prefix)
                 /\ out'.error = None
                        => /\ shown'.prefix = shown.prefix
                           /\ shown'.page = IndexOfData(shown.prefix, update'.text)
                           /\ shown'.page \in {prev_index(shown.page, shown.count),
                                               next_index(shown.page, shown.count)}]_vars

\* "<" on the first page of the /allbooks browser went to its handler, which drew
\* the fourth and last page
C17_Witness ==
    /\ out.op = "all_books_button" /\ out.reply = "PAGE"
    /\ update.text = ALL_BOOKS_CALLBACK_PATTERN \o <<"3">>
    /\ shown.prefix = ALL_BOOKS_CALLBACK_PATTERN
    /\ shown.page = 3
    /\ trail # <<>> /\ trail[Len(trail)] = Press(0, "<")

====
